---- MODULE Spec2Model ----
(***************************************************************************)
(* A model of collector.go of ecobee-exporter: the descriptor registry     *)
(* built by NewEcobeeCollector and one call of eCollector.Collect, which   *)
(* fetches the registered thermostats, and walks thermostats, remote       *)
(* sensors and sensor capabilities, sending samples on the channel ch.     *)
(*                                                                         *)
(* Strings that the code only copies (identifiers, names, modes) are TLA+  *)
(* strings.  A capability value, which the code parses, is a sequence of   *)
(* one-character strings.  A float64 is a decimal [n, e] standing for      *)
(* n * 10^(-e), kept normalised (no trailing zero digit while e > 0).      *)
(***************************************************************************)
EXTENDS Integers, Sequences, FiniteSets, TLC

\* The size of a thermostat list is at most MaxSize.  A thermostat counts two
\* (itself and its runtime and settings blocks), a remote sensor one and a
\* capability one.
MaxSize == 5

----------------------------------------------------------------------------
(* float64 values *)

RECURSIVE Norm(_)
Norm(x) ==
    IF x.e > 0 /\ x.n % 10 = 0 THEN Norm([n |-> x.n \div 10, e |-> x.e - 1]) ELSE x

Float(n) == [n |-> n, e |-> 0]

Div10(x) == Norm([n |-> x.n, e |-> x.e + 1])

Bool2Float(b) == IF b THEN Float(1) ELSE Float(0)

----------------------------------------------------------------------------
(* strconv.ParseFloat on the decimal forms [sign] digits [. digits] *)

Digits == <<"0", "1", "2", "3", "4", "5", "6", "7", "8", "9">>

IsDigit(c) == \E d \in 1..Len(Digits) : Digits[d] = c

DigitVal(c) == (CHOOSE d \in 1..Len(Digits) : Digits[d] = c) - 1

RECURSIVE ParseDigits(_, _)
\* the digits s (all of them digits) read as a natural number, after acc
ParseDigits(s, acc) ==
    IF s = <<>> THEN acc ELSE ParseDigits(Tail(s), acc * 10 + DigitVal(Head(s)))

AllDigits(s) == \A p \in 1..Len(s) : IsDigit(s[p])

DotAt(s) == {p \in 1..Len(s) : s[p] = "."}

\* [ok |-> TRUE, v |-> float] or [ok |-> FALSE] (a *NumError)
ParseUnsigned(s) ==
    IF DotAt(s) = {}
    THEN IF s # <<>> /\ AllDigits(s)
         THEN [ok |-> TRUE, v |-> Float(ParseDigits(s, 0))]
         ELSE [ok |-> FALSE]
    ELSE LET p == CHOOSE q \in DotAt(s) : TRUE
             int == SubSeq(s, 1, p - 1)
             frac == SubSeq(s, p + 1, Len(s))
         IN  IF Cardinality(DotAt(s)) = 1 /\ AllDigits(int) /\ AllDigits(frac)
                /\ Len(int) + Len(frac) > 0
             THEN [ok |-> TRUE,
                   v |-> Norm([n |-> ParseDigits(int \o frac, 0), e |-> Len(frac)])]
             ELSE [ok |-> FALSE]

ParseFloat(s) ==
    IF s # <<>> /\ Head(s) \in {"+", "-"}
    THEN LET r == ParseUnsigned(Tail(s))
         IN  IF r.ok /\ Head(s) = "-"
             THEN [ok |-> TRUE, v |-> [n |-> 0 - r.v.n, e |-> r.v.e]]
             ELSE r
    ELSE ParseUnsigned(s)

----------------------------------------------------------------------------
(* the descriptor registry *)

runtimeLabels == <<"thermostat_id", "thermostat_name">>

sensorLabels == runtimeLabels \o <<"sensor_id", "sensor_name", "sensor_type">>

NewDesc(fqName, variableLabels) == [fqName |-> fqName, variableLabels |-> variableLabels]

NewEcobeeCollector ==
    [fetchTime            |-> NewDesc("fetch_time", <<>>),
     actualTemperature    |-> NewDesc("actual_temperature", runtimeLabels),
     targetTemperatureMax |-> NewDesc("target_temperature_max", runtimeLabels),
     targetTemperatureMin |-> NewDesc("target_temperature_min", runtimeLabels),
     temperature          |-> NewDesc("temperature", sensorLabels),
     humidity             |-> NewDesc("humidity", sensorLabels),
     occupancy            |-> NewDesc("occupancy", sensorLabels),
     inUse                |-> NewDesc("in_use", sensorLabels),
     currentHvacMode      |-> NewDesc("currenthvacmode",
                                <<"thermostat_id", "thermostat_name", "current_hvac_mode">>),
     currentFanMode       |-> NewDesc("currentfanmode",
                                <<"thermostat_id", "thermostat_name", "current_fan_mode">>),
     equipmentRunning     |-> NewDesc("equipment_running",
                                <<"thermostat_id", "thermostat_name", "equipment">>)]

c == NewEcobeeCollector

\* prometheus.MustNewConstMetric: the sample, which is valid when it has one
\* label value per label name of its descriptor, and a panic otherwise
MustNewConstMetric(desc, value, labelValues) ==
    [desc |-> desc, value |-> value, labels |-> labelValues]

ValidMetric(m) == Len(m.labels) = Len(m.desc.variableLabels)

----------------------------------------------------------------------------
(* the data the ecobee API serves *)

\* Thermostat identifiers are unique serial numbers: the p-th registered
\* thermostat has the p-th of them.  Sensor identifiers are unique within
\* their thermostat.
ThermostatIds == <<"t1", "t2", "t3", "t4", "t5", "t6">>

ThermostatNames == <<"Home", "Cabin", "Office", "Garage", "Attic", "Shed">>

SensorIds == <<"ei:0", "rs:100", "rs:101", "rs:102", "rs:103", "rs:104">>

SensorNames == <<"Hall", "Bedroom", "Kitchen", "Porch", "Loft", "Cellar">>

SensorTypes == <<"thermostat", "ecobee3_remote_sensor">>

\* Runtime and settings blocks (temperatures are tenths of a degree)
RuntimeProfiles ==
    << [Runtime |-> [ActualTemperature |-> 700, DesiredCool |-> 720,
                     DesiredHeat |-> 680, DesiredFanMode |-> "auto"],
        Settings |-> [HvacMode |-> "heat"]],
       [Runtime |-> [ActualTemperature |-> 0 - 15, DesiredCool |-> 725,
                     DesiredHeat |-> 0, DesiredFanMode |-> "on"],
        Settings |-> [HvacMode |-> "cool"]] >>

\* ecobee.RemoteSensorCapability values {Type, Value}
CapChoices ==
    { [Type |-> "temperature", Value |-> <<"7", "2", "5">>],
      [Type |-> "temperature", Value |-> <<"a", "b", "c">>],
      [Type |-> "humidity",    Value |-> <<"4", "5">>],
      [Type |-> "humidity",    Value |-> <<>>],
      [Type |-> "occupancy",   Value |-> <<"t", "r", "u", "e">>],
      [Type |-> "occupancy",   Value |-> <<"f", "a", "l", "s", "e">>],
      [Type |-> "occupancy",   Value |-> <<"u", "n", "k", "n", "o", "w", "n">>],
      [Type |-> "airQuality",  Value |-> <<"4", "0", "0">>] }

Pick(seq, p) == seq[((p - 1) % Len(seq)) + 1]

RECURSIVE SensorSeqs(_)
\* the sensor lists of size (sensors plus capabilities) at most b
SensorSeqs(b) ==
    {<<>>} \cup
    UNION { UNION { { Append(rest,
                        [ID |-> SensorIds[Len(rest) + 1],
                         Name |-> SensorNames[Len(rest) + 1],
                         Type |-> Pick(SensorTypes, Len(rest) + 1),
                         InUse |-> inUse,
                         Capability |-> caps])
                      : inUse \in BOOLEAN, caps \in [1..n -> CapChoices] }
                    : rest \in SensorSeqs(b - 1 - n) }
            : n \in 0..(b - 1) }

RECURSIVE SensorsSize(_)
SensorsSize(ss) ==
    IF ss = <<>> THEN 0 ELSE 1 + Len(Head(ss).Capability) + SensorsSize(Tail(ss))

RECURSIVE ThermostatSeqs(_)
\* the thermostat lists of size at most b
ThermostatSeqs(b) ==
    {<<>>} \cup
    UNION { UNION { { Append(rest,
                        [Identifier |-> ThermostatIds[Len(rest) + 1],
                         Name |-> ThermostatNames[Len(rest) + 1],
                         Runtime |-> [Connected |-> connected]
                                       @@ Pick(RuntimeProfiles, Len(rest) + 1).Runtime,
                         Settings |-> Pick(RuntimeProfiles, Len(rest) + 1).Settings,
                         RemoteSensors |-> ss])
                      : connected \in BOOLEAN,
                        ss \in {x \in SensorSeqs(n) : SensorsSize(x) = n} }
                    : rest \in ThermostatSeqs(b - 2 - n) }
            : n \in 0..(b - 2) }

\* The fields of ecobee.EquipmentStatus, all of them bool
EquipmentStatusFields == <<"HeatPump", "Fan">>

Relays == {EquipmentStatusFields[p] : p \in 1..Len(EquipmentStatusFields)}

EquipmentStatus == [Relays -> BOOLEAN]

ZeroEquipmentStatus == [f \in Relays |-> FALSE]

Identifiers(list) == {list[p].Identifier : p \in 1..Len(list)}

\* The thermostat summaries the API may answer with: one entry per registered
\* thermostat, or no entry at all
SummaryMaps(list) ==
    UNION { [d -> {st}] : d \in {Identifiers(list), {}}, st \in EquipmentStatus }

\* wall-clock seconds a fetch may take
ElapsedChoices == {Float(0), [n |-> 25, e |-> 1]}

----------------------------------------------------------------------------
(* the state of one Collect call *)

VARIABLES
    src,      \* the registered thermostats, as the API serves them
    pc,       \* where Collect is: start, loop, runtime, sensors, caps, done, panic
    tt,       \* the thermostats GetThermostats returned
    err,      \* the error of the last fetch: "nil" or "error"
    ts,       \* the summaries GetThermostatSummary returned in this iteration
    i,        \* the thermostat of this iteration is t = tt[i]
    j,        \* the sensor of this iteration is s = t.RemoteSensors[j]
    k,        \* the capability of this iteration is sc = s.Capability[k]
    tFields,  \* the label values of t
    sFields,  \* the label values of s
    ch,       \* the samples sent on the channel, in order
    logs,     \* the messages logged, in order
    calls,    \* the API requests issued, in order
    reply1,   \* history: the first answer to GetThermostatSummary, once given
    uniform   \* history: every answer to GetThermostatSummary equalled reply1

vars == <<src, pc, tt, err, ts, i, j, k, tFields, sFields, ch, logs, calls,
          reply1, uniform>>

NoSummary == [x \in {} |-> ZeroEquipmentStatus]

Init ==
    /\ src \in ThermostatSeqs(MaxSize)
    /\ pc = "start"
    /\ tt = <<>>
    /\ err = "nil"
    /\ ts = NoSummary
    /\ i = 0
    /\ j = 0
    /\ k = 0
    /\ tFields = <<>>
    /\ sFields = <<>>
    /\ ch = <<>>
    /\ logs = <<>>
    /\ calls = <<>>
    /\ reply1 = [given |-> FALSE]
    /\ uniform = TRUE

\* the answer r to GetThermostatSummary enters the history
Answered(r) ==
    IF reply1.given
    THEN /\ reply1' = reply1
         /\ uniform' = (uniform /\ r = reply1.reply)
    ELSE /\ reply1' = [given |-> TRUE, reply |-> r]
         /\ uniform' = uniform

\* a logged message: its level, its text and the value the text quotes
LogError(msg, arg) == [level |-> "error", msg |-> msg, arg |-> arg]

LogInfo(msg, arg) == [level |-> "info", msg |-> msg, arg |-> arg]

RECURSIVE ValidPrefix(_)
\* the samples of out that precede its first invalid one
ValidPrefix(out) ==
    IF out = <<>> \/ ~ValidMetric(Head(out))
    THEN <<>>
    ELSE <<Head(out)>> \o ValidPrefix(Tail(out))

\* Send the samples out, then log the messages msgs, then go to next; the
\* first invalid sample makes MustNewConstMetric panic instead
Step(out, msgs, next) ==
    IF ValidPrefix(out) = out
    THEN /\ ch' = ch \o out
         /\ logs' = logs \o msgs
         /\ pc' = next
    ELSE /\ ch' = ch \o ValidPrefix(out)
         /\ logs' = logs
         /\ pc' = "panic"

FetchTimeMetric(elapsed) == MustNewConstMetric(c.fetchTime, elapsed, <<>>)

\* GetThermostatsErr with the error checked before fetch_time is sent
GetThermostatsErr_CheckFirst ==
    /\ pc = "start"
    /\ pc' = "done"
    /\ logs' = Append(logs, LogError("GetThermostats", <<>>))
    /\ calls' = Append(calls, "GetThermostats")
    /\ err' = "error"
    /\ UNCHANGED <<src, tt, ts, i, j, k, tFields, sFields, ch, reply1, uniform>>

\* GetThermostatsErr with the error dropped instead of logged
GetThermostatsErr_Silent ==
    /\ pc = "start"
    /\ \E elapsed \in ElapsedChoices :
          Step(<<FetchTimeMetric(elapsed)>>, <<>>, "done")
    /\ calls' = Append(calls, "GetThermostats")
    /\ err' = "error"
    /\ UNCHANGED <<src, tt, ts, i, j, k, tFields, sFields, reply1, uniform>>

\* GetThermostats fails: fetch_time is sent, the error logged, Collect returns
GetThermostatsErr ==
    /\ pc = "start"
    /\ \E elapsed \in ElapsedChoices :
          Step(<<FetchTimeMetric(elapsed)>>, <<LogError("GetThermostats", <<>>)>>, "done")
    /\ calls' = Append(calls, "GetThermostats")
    /\ err' = "error"
    /\ UNCHANGED <<src, tt, ts, i, j, k, tFields, sFields, reply1, uniform>>

\* GetThermostats succeeds: fetch_time is sent and the loop begins
GetThermostatsOK ==
    /\ pc = "start"
    /\ \E elapsed \in ElapsedChoices :
          Step(<<FetchTimeMetric(elapsed)>>, <<>>, "loop")
    /\ calls' = Append(calls, "GetThermostats")
    /\ tt' = src
    /\ err' = "nil"
    /\ UNCHANGED <<src, ts, i, j, k, tFields, sFields, reply1, uniform>>

\* GetThermostatSummaryOK with the summaries assigned to a shadowing variable
GetThermostatSummaryOK_Shadowed ==
    /\ pc = "loop"
    /\ i < Len(tt)
    /\ i' = i + 1
    /\ calls' = Append(calls, "GetThermostatSummary")
    /\ \E m \in SummaryMaps(src) : Answered([err |-> "nil", ts |-> m])
    /\ err' = "nil"
    /\ pc' = "runtime"
    /\ UNCHANGED <<src, tt, ts, j, k, tFields, sFields, ch, logs>>

\* the next thermostat's iteration begins with a successful summary fetch
GetThermostatSummaryOK ==
    /\ pc = "loop"
    /\ i < Len(tt)
    /\ i' = i + 1
    /\ calls' = Append(calls, "GetThermostatSummary")
    /\ \E m \in SummaryMaps(src) :
          /\ ts' = m
          /\ Answered([err |-> "nil", ts |-> m])
    /\ err' = "nil"
    /\ pc' = "runtime"
    /\ UNCHANGED <<src, tt, j, k, tFields, sFields, ch, logs>>

\* GetThermostatSummaryErr with the thermostat skipped (continue for return)
GetThermostatSummaryErr_Continue ==
    /\ pc = "loop"
    /\ i < Len(tt)
    /\ i' = i + 1
    /\ calls' = Append(calls, "GetThermostatSummary")
    /\ err' = "error"
    /\ logs' = Append(logs, LogError("GetThermostatSummary", <<>>))
    /\ pc' = "loop"
    /\ Answered([err |-> "error"])
    /\ UNCHANGED <<src, tt, ts, j, k, tFields, sFields, ch>>

\* the next thermostat's iteration begins with a failed summary fetch
GetThermostatSummaryErr ==
    /\ pc = "loop"
    /\ i < Len(tt)
    /\ i' = i + 1
    /\ calls' = Append(calls, "GetThermostatSummary")
    /\ err' = "error"
    /\ logs' = Append(logs, LogError("GetThermostatSummary", <<>>))
    /\ pc' = "done"
    /\ Answered([err |-> "error"])
    /\ UNCHANGED <<src, tt, ts, j, k, tFields, sFields, ch>>

\* the thermostats are exhausted: Collect returns
Return ==
    /\ pc = "loop"
    /\ i = Len(tt)
    /\ pc' = "done"
    /\ UNCHANGED <<src, tt, err, ts, i, j, k, tFields, sFields, ch, logs, calls, reply1, uniform>>

\* reflect.VisibleFields(struct{ ecobee.EquipmentStatus }{}): the embedded
\* field itself, then the fields it promotes
equipFields == <<"EquipmentStatus">> \o EquipmentStatusFields

\* ts[id].EquipmentStatus: the entry, or the zero value when there is none
Lookup(m, id) == IF id \in DOMAIN m THEN m[id] ELSE ZeroEquipmentStatus

\* reflect.Indirect(r).FieldByName(name)
FieldByName(r, name) ==
    IF name \in DOMAIN r THEN [IsValid |-> TRUE, Bool |-> r[name]] ELSE [IsValid |-> FALSE]

RECURSIVE EquipmentMetrics_RunningOnly(_, _, _)
\* EquipmentMetrics with a sample for the running equipment only
EquipmentMetrics_RunningOnly(t, r, fields) ==
    IF fields = <<>> THEN <<>>
    ELSE LET f == Head(fields)
             fieldVal == FieldByName(r, f)
         IN  (IF fieldVal.IsValid /\ fieldVal.Bool
              THEN <<MustNewConstMetric(c.equipmentRunning, Bool2Float(fieldVal.Bool),
                                        <<t.Identifier, t.Name, f>>)>>
              ELSE <<>>)
             \o EquipmentMetrics_RunningOnly(t, r, Tail(fields))

RECURSIVE EquipmentMetrics(_, _, _)
\* one equipment_running sample per valid field of fields
EquipmentMetrics(t, r, fields) ==
    IF fields = <<>> THEN <<>>
    ELSE LET f == Head(fields)
             fieldVal == FieldByName(r, f)
         IN  (IF fieldVal.IsValid
              THEN <<MustNewConstMetric(c.equipmentRunning, Bool2Float(fieldVal.Bool),
                                        <<t.Identifier, t.Name, f>>)>>
              ELSE <<>>)
             \o EquipmentMetrics(t, r, Tail(fields))

\* RuntimeMetrics with the equipment samples sent only for a thermostat that
\* has a summary
RuntimeMetrics_SkipMissing(t, fields, m) ==
    << MustNewConstMetric(c.actualTemperature,
                          Div10(Float(t.Runtime.ActualTemperature)), fields),
       MustNewConstMetric(c.targetTemperatureMax,
                          Div10(Float(t.Runtime.DesiredCool)), fields),
       MustNewConstMetric(c.targetTemperatureMin,
                          Div10(Float(t.Runtime.DesiredHeat)), fields),
       MustNewConstMetric(c.currentHvacMode, Float(0),
                          <<t.Identifier, t.Name, t.Settings.HvacMode>>),
       MustNewConstMetric(c.currentFanMode, Float(0),
                          <<t.Identifier, t.Name, t.Runtime.DesiredFanMode>>) >>
    \o (IF t.Identifier \in DOMAIN m
        THEN EquipmentMetrics(t, m[t.Identifier], equipFields)
        ELSE <<>>)

\* what Collect sends for a connected thermostat before it turns to the sensors
RuntimeMetrics(t, fields, m) ==
    << MustNewConstMetric(c.actualTemperature,
                          Div10(Float(t.Runtime.ActualTemperature)), fields),
       MustNewConstMetric(c.targetTemperatureMax,
                          Div10(Float(t.Runtime.DesiredCool)), fields),
       MustNewConstMetric(c.targetTemperatureMin,
                          Div10(Float(t.Runtime.DesiredHeat)), fields),
       MustNewConstMetric(c.currentHvacMode, Float(0),
                          <<t.Identifier, t.Name, t.Settings.HvacMode>>),
       MustNewConstMetric(c.currentFanMode, Float(0),
                          <<t.Identifier, t.Name, t.Runtime.DesiredFanMode>>) >>
    \o EquipmentMetrics(t, Lookup(m, t.Identifier), equipFields)

ThermostatFields(t) == <<t.Identifier, t.Name>>

\* which thermostats send their runtime, mode and equipment samples
SendsRuntime(t) == t.Runtime.Connected

\* Runtime with the sensor loop inside the connected branch
Runtime_ConnectedOnly ==
    /\ pc = "runtime"
    /\ LET t == tt[i]
       IN  IF SendsRuntime(t)
           THEN /\ tFields' = ThermostatFields(t)
                /\ Step(RuntimeMetrics(t, tFields', ts), <<>>, "sensors")
           ELSE /\ tFields' = <<>>
                /\ Step(<<>>, <<>>, "loop")
    /\ j' = 0
    /\ UNCHANGED <<src, tt, err, ts, i, k, sFields, calls, reply1, uniform>>

\* the runtime part of the iteration of t = tt[i]
Runtime ==
    /\ pc = "runtime"
    /\ LET t == tt[i]
       IN  /\ tFields' = ThermostatFields(t)
           /\ Step(IF SendsRuntime(t) THEN RuntimeMetrics(t, tFields', ts) ELSE <<>>,
                   <<>>, "sensors")
    /\ j' = 0
    /\ UNCHANGED <<src, tt, err, ts, i, k, sFields, calls, reply1, uniform>>

\* SensorFields with the sensor's name and identifier exchanged
SensorFields_Swapped(fields, s) == fields \o <<s.Name, s.ID, s.Type>>

SensorFields(fields, s) == fields \o <<s.ID, s.Name, s.Type>>

\* the next remote sensor of t: in_use is sent
NextSensor ==
    /\ pc = "sensors"
    /\ j < Len(tt[i].RemoteSensors)
    /\ j' = j + 1
    /\ LET s == tt[i].RemoteSensors[j + 1]
       IN  /\ sFields' = SensorFields(tFields, s)
           /\ Step(<<MustNewConstMetric(c.inUse, Bool2Float(s.InUse), sFields')>>,
                   <<>>, "caps")
    /\ k' = 0
    /\ UNCHANGED <<src, tt, err, ts, i, tFields, calls, reply1, uniform>>

\* the sensors of t are exhausted: the iteration of t ends
EndSensors ==
    /\ pc = "sensors"
    /\ j = Len(tt[i].RemoteSensors)
    /\ pc' = "loop"
    /\ ts' = NoSummary
    /\ tFields' = <<>>
    /\ j' = 0
    /\ UNCHANGED <<src, tt, err, i, k, sFields, ch, logs, calls, reply1, uniform>>

\* Capability with every occupancy value other than "true" taken for "false"
Capability_OccupancyElseFalse(sc, fields) ==
    CASE sc.Type = "temperature" ->
           LET r == ParseFloat(sc.Value)
           IN  IF r.ok
               THEN [out |-> <<MustNewConstMetric(c.temperature, Div10(r.v), fields)>>,
                     msgs |-> <<>>]
               ELSE [out |-> <<>>, msgs |-> <<LogError("ParseFloat", sc.Value)>>]
      [] sc.Type = "humidity" ->
           LET r == ParseFloat(sc.Value)
           IN  IF r.ok
               THEN [out |-> <<MustNewConstMetric(c.humidity, r.v, fields)>>,
                     msgs |-> <<>>]
               ELSE [out |-> <<>>, msgs |-> <<LogError("ParseFloat", sc.Value)>>]
      [] sc.Type = "occupancy" ->
           IF sc.Value = <<"t", "r", "u", "e">>
           THEN [out |-> <<MustNewConstMetric(c.occupancy, Float(1), fields)>>,
                 msgs |-> <<>>]
           ELSE [out |-> <<MustNewConstMetric(c.occupancy, Float(0), fields)>>,
                 msgs |-> <<>>]
      [] OTHER ->
           [out |-> <<>>, msgs |-> <<LogInfo("ignoring sensor capability", <<sc.Type>>)>>]

\* what one capability sends and logs: [out |-> samples, msgs |-> messages]
Capability(sc, fields) ==
    CASE sc.Type = "temperature" ->
           LET r == ParseFloat(sc.Value)
           IN  IF r.ok
               THEN [out |-> <<MustNewConstMetric(c.temperature, Div10(r.v), fields)>>,
                     msgs |-> <<>>]
               ELSE [out |-> <<>>, msgs |-> <<LogError("ParseFloat", sc.Value)>>]
      [] sc.Type = "humidity" ->
           LET r == ParseFloat(sc.Value)
           IN  IF r.ok
               THEN [out |-> <<MustNewConstMetric(c.humidity, r.v, fields)>>,
                     msgs |-> <<>>]
               ELSE [out |-> <<>>, msgs |-> <<LogError("ParseFloat", sc.Value)>>]
      [] sc.Type = "occupancy" ->
           CASE sc.Value = <<"t", "r", "u", "e">> ->
                  [out |-> <<MustNewConstMetric(c.occupancy, Float(1), fields)>>,
                   msgs |-> <<>>]
             [] sc.Value = <<"f", "a", "l", "s", "e">> ->
                  [out |-> <<MustNewConstMetric(c.occupancy, Float(0), fields)>>,
                   msgs |-> <<>>]
             [] OTHER ->
                  [out |-> <<>>,
                   msgs |-> <<LogError("unknown sensor occupancy value", sc.Value)>>]
      [] OTHER ->
           [out |-> <<>>, msgs |-> <<LogInfo("ignoring sensor capability", <<sc.Type>>)>>]

\* NextCapability with a return after a logged error
NextCapability_ReturnOnError ==
    /\ pc = "caps"
    /\ k < Len(tt[i].RemoteSensors[j].Capability)
    /\ k' = k + 1
    /\ LET r == Capability(tt[i].RemoteSensors[j].Capability[k + 1], sFields)
       IN  Step(r.out, r.msgs,
                IF r.msgs # <<>> /\ r.msgs[1].level = "error" THEN "done" ELSE "caps")
    /\ UNCHANGED <<src, tt, err, ts, i, j, tFields, sFields, calls, reply1, uniform>>

\* the next capability of s
NextCapability ==
    /\ pc = "caps"
    /\ k < Len(tt[i].RemoteSensors[j].Capability)
    /\ k' = k + 1
    /\ LET r == Capability(tt[i].RemoteSensors[j].Capability[k + 1], sFields)
       IN  Step(r.out, r.msgs, "caps")
    /\ UNCHANGED <<src, tt, err, ts, i, j, tFields, sFields, calls, reply1, uniform>>

\* the capabilities of s are exhausted: the iteration of s ends
EndCapabilities ==
    /\ pc = "caps"
    /\ k = Len(tt[i].RemoteSensors[j].Capability)
    /\ pc' = "sensors"
    /\ sFields' = <<>>
    /\ k' = 0
    /\ UNCHANGED <<src, tt, err, ts, i, j, tFields, ch, logs, calls, reply1, uniform>>

Next ==
    \/ GetThermostatsErr
    \/ GetThermostatsOK
    \/ GetThermostatSummaryOK
    \/ GetThermostatSummaryErr
    \/ Return
    \/ Runtime
    \/ NextSensor
    \/ EndSensors
    \/ NextCapability
    \/ EndCapabilities

Spec == Init /\ [][Next]_vars

----------------------------------------------------------------------------
(* vocabulary of the properties *)

RECURSIVE Concat(_)
\* the concatenation of a sequence of sequences
Concat(seqs) == IF seqs = <<>> THEN <<>> ELSE Head(seqs) \o Concat(Tail(seqs))

Count(seq, Test(_)) == Cardinality({p \in 1..Len(seq) : Test(seq[p])})

IsFetchTime(m) == m.desc = c.fetchTime

IsEquipment(m) == m.desc = c.equipmentRunning

IsThermostatMetric(m) ==
    m.desc \in {c.actualTemperature, c.targetTemperatureMin, c.targetTemperatureMax,
                c.currentHvacMode, c.currentFanMode}

IsSensorMetric(m) == m.desc \in {c.inUse, c.temperature, c.humidity, c.occupancy}

\* the primary fetch failed / a summary fetch failed
PrimaryFailed == err = "error" /\ i = 0

SummaryFailed == err = "error" /\ i >= 1

\* the number of thermostats whose iteration has run to its end
Completed ==
    CASE pc \in {"start", "panic"} -> 0
      [] pc \in {"runtime", "sensors", "caps"} -> i - 1
      [] pc = "loop" -> i
      [] pc = "done" -> IF err = "error" /\ i >= 1 THEN i - 1 ELSE i

\* a sample with an equipment_running value forgotten
Erase(m) == IF IsEquipment(m) THEN [m EXCEPT !.value = Float(0)] ELSE m

EraseAll(seq) == [p \in 1..Len(seq) |-> Erase(seq[p])]

\* what one sensor of t sends, capability by capability
SensorSamples(t, s) ==
    LET fields == <<t.Identifier, t.Name, s.ID, s.Name, s.Type>>
    IN  <<MustNewConstMetric(c.inUse, Bool2Float(s.InUse), fields)>>
        \o Concat([q \in 1..Len(s.Capability) |-> Capability(s.Capability[q], fields).out])

\* what the sensors of t send
SensorsSamples(t) ==
    Concat([q \in 1..Len(t.RemoteSensors) |-> SensorSamples(t, t.RemoteSensors[q])])

\* what a whole iteration sends for t when the summaries are m
ThermostatSamples(t, m) ==
    (IF t.Runtime.Connected
     THEN RuntimeMetrics(t, <<t.Identifier, t.Name>>, m)
     ELSE <<>>)
    \o SensorsSamples(t)

\* the sensors whose iteration has begun, each with its thermostat and the
\* number n of its capabilities processed so far
SensorsOfThermostat(t, n) ==
    [q \in 1..n |-> [t |-> t, s |-> t.RemoteSensors[q],
                     n |-> Len(t.RemoteSensors[q].Capability)]]

ProcessedSensors ==
    Concat([p \in 1..Completed |-> SensorsOfThermostat(tt[p], Len(tt[p].RemoteSensors))])
    \o (CASE pc = "sensors" -> SensorsOfThermostat(tt[i], j)
          [] pc = "caps" -> SensorsOfThermostat(tt[i], j - 1)
                            \o <<[t |-> tt[i], s |-> tt[i].RemoteSensors[j], n |-> k]>>
          [] OTHER -> <<>>)

\* the capabilities processed so far, each with its thermostat and sensor
ProcessedCaps ==
    Concat([p \in 1..Len(ProcessedSensors) |->
              LET x == ProcessedSensors[p]
              IN  [q \in 1..x.n |-> [t |-> x.t, s |-> x.s, sc |-> x.s.Capability[q]]]])

\* a temperature or humidity capability whose value is no number
Unparsable(sc) == sc.Type \in {"temperature", "humidity"} /\ ~ParseFloat(sc.Value).ok

IsParseError(l) == l.level = "error" /\ l.msg = "ParseFloat"

IsOccupancyError(l) == l.level = "error" /\ l.msg = "unknown sensor occupancy value"

IsSummaryError(l) == l.level = "error" /\ l.msg = "GetThermostatSummary"

----------------------------------------------------------------------------
(* the properties *)

\* C1: once the primary fetch has answered, whatever it and the later
\* equipment-status fetches answer, the channel holds exactly one fetch_time
\* sample (and none before).
C1_FetchTimeOnce ==
    /\ pc = "start" => Count(ch, IsFetchTime) = 0
    /\ pc # "start" => Count(ch, IsFetchTime) = 1

\* a scrape that sent the samples of its first thermostat and was then
\* aborted by the failed summary fetch of its second
C1_Witness == pc = "done" /\ SummaryFailed /\ i = 2 /\ Len(ch) > 1

\* C2: when GetThermostats fails, Collect has returned normally, the channel
\* holds fetch_time and nothing else, no summary was requested, and the error
\* is the one message logged.
C2_PrimaryFailure ==
    PrimaryFailed =>
        /\ pc = "done"
        /\ Len(ch) = 1
        /\ IsFetchTime(ch[1])
        /\ calls = <<"GetThermostats">>
        /\ logs = <<LogError("GetThermostats", <<>>)>>

\* the primary fetch failed although thermostats with sensors are registered
C2_Witness ==
    /\ PrimaryFailed
    /\ pc = "done"
    /\ Len(src) >= 2
    /\ src[1].RemoteSensors # <<>>

\* C3: when the summary fetch of the i-th thermostat has failed, Collect has
\* returned normally, the error is the last message logged, and the channel
\* holds fetch_time followed by the complete samples of thermostats 1..i-1
\* and nothing of thermostat i or a later one.
C3_SummaryFailure ==
    Count(logs, IsSummaryError) > 0 =>
        /\ pc = "done"
        /\ SummaryFailed
        /\ Count(logs, IsSummaryError) = 1
        /\ IsSummaryError(logs[Len(logs)])
        /\ IsFetchTime(ch[1])
        /\ EraseAll(Tail(ch)) =
               Concat([p \in 1..(i - 1) |-> ThermostatSamples(tt[p], NoSummary)])
        /\ \A p \in 1..Len(ch), q \in i..Len(tt) :
               ch[p].labels = <<>> \/ ch[p].labels[1] # tt[q].Identifier

\* the failed fetch is that of a second, disconnected thermostat with a
\* sensor, after a connected first thermostat
C3_Witness ==
    /\ pc = "done"
    /\ SummaryFailed
    /\ i = 2
    /\ tt[1].Runtime.Connected
    /\ Len(ch) > 1
    /\ ~tt[2].Runtime.Connected
    /\ tt[2].RemoteSensors # <<>>

\* the equipment_running samples on the channel for relay f of thermostat t
EquipmentCount(t, f) ==
    Count(ch, LAMBDA m : IsEquipment(m) /\ m.labels = <<t.Identifier, t.Name, f>>)

\* the runtime part of the iteration of tt[p] has run
RuntimeRan(p) == p <= Completed \/ (p = i /\ pc \in {"sensors", "caps"})

\* C4, as stated, and read in its favour for the scrapes no failed fetch cut
\* short: when Collect has returned from such a scrape, the channel holds
\* exactly one equipment_running sample for every relay of every thermostat.
C4_Original ==
    (pc = "done" /\ err = "nil") =>
        \A p \in 1..Len(tt), f \in Relays : EquipmentCount(tt[p], f) = 1

\* C4, amended: the channel holds exactly one equipment_running sample per
\* relay for every connected thermostat whose iteration got past a successful
\* summary fetch, and none for any other thermostat; the sample's value is 1
\* exactly when the relay is true in the thermostat's summary.
C4_EquipmentPerConnected ==
    /\ \A p \in 1..Len(tt), f \in Relays :
          EquipmentCount(tt[p], f) =
              IF tt[p].Runtime.Connected /\ RuntimeRan(p) THEN 1 ELSE 0
    /\ Count(ch, IsEquipment) =
          Cardinality({p \in 1..Len(tt) : tt[p].Runtime.Connected /\ RuntimeRan(p)})
              * Cardinality(Relays)
    /\ (pc \in {"sensors", "caps"} /\ tt[i].Runtime.Connected) =>
          \A p \in 1..Len(ch), f \in Relays :
              (IsEquipment(ch[p]) /\ ch[p].labels = <<tt[i].Identifier, tt[i].Name, f>>)
                  => (ch[p].value = [n |-> 1, e |-> 0]
                          <=> (tt[i].Identifier \in DOMAIN ts /\ ts[tt[i].Identifier][f]))
                     /\ ch[p].value \in {[n |-> 0, e |-> 0], [n |-> 1, e |-> 0]}

\* a second connected thermostat has just sent its equipment samples, one
\* relay on and one off, after a disconnected first thermostat
C4_Witness ==
    /\ pc = "sensors"
    /\ i = 2
    /\ ~tt[1].Runtime.Connected
    /\ tt[2].Runtime.Connected
    /\ tt[2].Identifier \in DOMAIN ts
    /\ ts[tt[2].Identifier]["HeatPump"]
    /\ ~ts[tt[2].Identifier]["Fan"]

\* the samples of the sensor metrics that carry the identifier of t
SensorStream(t) ==
    SelectSeq(ch, LAMBDA m : IsSensorMetric(m) /\ m.labels[1] = t.Identifier)

\* C5: a disconnected thermostat has no actual_temperature,
\* target_temperature_min, target_temperature_max, currenthvacmode or
\* currentfanmode sample on the channel, and once its iteration has run, its
\* sensors have sent what they send for a connected thermostat: the samples
\* that their data alone determine.
C5_Disconnected ==
    \A p \in 1..Len(tt) :
        /\ ~tt[p].Runtime.Connected =>
              Count(ch, LAMBDA m : IsThermostatMetric(m)
                                   /\ m.labels[1] = tt[p].Identifier) = 0
        /\ p <= Completed =>
              /\ SensorStream(tt[p]) = SensorsSamples(tt[p])
              /\ SensorStream(tt[p]) =
                     SensorsSamples([tt[p] EXCEPT !.Runtime.Connected = TRUE])

\* a scrape has ended that met a disconnected thermostat with a sensor that
\* sends a capability sample
C5_Witness ==
    /\ pc = "done"
    /\ err = "nil"
    /\ \E p \in 1..Len(tt) :
          /\ ~tt[p].Runtime.Connected
          /\ Len(SensorsSamples(tt[p])) >= 2
          /\ SensorStream(tt[p]) # <<>>

\* C10: the runtime part of the iteration of a connected thermostat that has
\* no entry in the summaries logs nothing and sends, after the runtime and
\* mode samples, one equipment_running sample per relay, each of value 0:
\* what it sends for an entry whose relays are all false.
C10_MissingSummary ==
    [][ (pc = "runtime" /\ tt[i].Runtime.Connected /\ tt[i].Identifier \notin DOMAIN ts)
        => /\ logs' = logs
           /\ pc' = "sensors"
           /\ LET sent == SubSeq(ch', Len(ch) + 1, Len(ch'))
              IN  /\ SelectSeq(sent, IsEquipment) =
                         [q \in 1..Len(EquipmentStatusFields) |->
                             [desc |-> c.equipmentRunning,
                              value |-> [n |-> 0, e |-> 0],
                              labels |-> <<tt[i].Identifier, tt[i].Name,
                                           EquipmentStatusFields[q]>>]]
                  /\ sent = RuntimeMetrics(tt[i], <<tt[i].Identifier, tt[i].Name>>,
                                [x \in {tt[i].Identifier} |-> ZeroEquipmentStatus])
      ]_vars

\* a connected thermostat without an entry in the summaries has sent its
\* runtime part
C10_Witness ==
    /\ pc = "sensors"
    /\ j = 0
    /\ tt[i].Runtime.Connected
    /\ tt[i].Identifier \notin DOMAIN ts
    /\ Count(ch, IsEquipment) > 0

\* t without the temperature and humidity capabilities whose value is no number
StripUnparsable(t) ==
    [t EXCEPT !.RemoteSensors =
        [q \in 1..Len(t.RemoteSensors) |->
            [t.RemoteSensors[q] EXCEPT !.Capability =
                SelectSeq(t.RemoteSensors[q].Capability, LAMBDA sc : ~Unparsable(sc))]]]

IsTemperatureOrHumidity(m) == m.desc \in {c.temperature, c.humidity}

OccupancyTrue == <<"t", "r", "u", "e">>

OccupancyFalse == <<"f", "a", "l", "s", "e">>

\* the occupancy samples that the capabilities processed so far call for
OccupancyExpected ==
    Concat([q \in 1..Len(ProcessedCaps) |->
              LET x == ProcessedCaps[q]
                  labels == <<x.t.Identifier, x.t.Name, x.s.ID, x.s.Name, x.s.Type>>
              IN  IF x.sc.Type = "occupancy" /\ x.sc.Value = OccupancyTrue
                  THEN <<[desc |-> c.occupancy, value |-> [n |-> 1, e |-> 0],
                          labels |-> labels]>>
                  ELSE IF x.sc.Type = "occupancy" /\ x.sc.Value = OccupancyFalse
                  THEN <<[desc |-> c.occupancy, value |-> [n |-> 0, e |-> 0],
                          labels |-> labels]>>
                  ELSE <<>>])

\* C7: the occupancy samples on the channel are, in order, one of value 1 for
\* each occupancy capability processed whose value is "true" and one of value
\* 0 for each whose value is "false"; each occupancy capability of another
\* value has logged exactly one error and sent nothing, and Collect went on.
C7_Occupancy ==
    /\ pc # "panic"
    /\ SelectSeq(ch, LAMBDA m : m.desc = c.occupancy) = OccupancyExpected
    /\ Count(logs, IsOccupancyError) =
          Count(ProcessedCaps, LAMBDA x : x.sc.Type = "occupancy"
                                          /\ x.sc.Value \notin {OccupancyTrue, OccupancyFalse})

\* a scrape has ended whose first sensor has an occupancy capability of an
\* unknown value followed by one of value "true"
C7_Witness ==
    /\ pc = "done"
    /\ err = "nil"
    /\ Len(tt) >= 1
    /\ Len(tt[1].RemoteSensors) >= 1
    /\ Len(tt[1].RemoteSensors[1].Capability) >= 2
    /\ tt[1].RemoteSensors[1].Capability[1].Type = "occupancy"
    /\ tt[1].RemoteSensors[1].Capability[1].Value \notin {OccupancyTrue, OccupancyFalse}
    /\ tt[1].RemoteSensors[1].Capability[2].Type = "occupancy"
    /\ tt[1].RemoteSensors[1].Capability[2].Value = OccupancyTrue
    /\ Count(ch, LAMBDA m : m.desc = c.occupancy) = 1
    /\ Count(logs, IsOccupancyError) = 1

\* a capability that sends a sample
Sends(sc) ==
    \/ sc.Type \in {"temperature", "humidity"} /\ ParseFloat(sc.Value).ok
    \/ sc.Type = "occupancy" /\ sc.Value \in {OccupancyTrue, OccupancyFalse}

\* the label values of the sensor samples that the sensors and capabilities
\* processed so far call for: the sensor's own, once for in_use and once for
\* each capability that sends
SensorLabelsExpected ==
    Concat([p \in 1..Len(ProcessedSensors) |->
              LET x == ProcessedSensors[p]
                  labels == <<x.t.Identifier, x.t.Name, x.s.ID, x.s.Name, x.s.Type>>
              IN  <<labels>>
                  \o Concat([q \in 1..x.n |->
                               IF Sends(x.s.Capability[q]) THEN <<labels>> ELSE <<>>])])

LabelsOf(seq) == [p \in 1..Len(seq) |-> seq[p].labels]

ThermostatLabelNames == <<"thermostat_id", "thermostat_name">>

SensorLabelNames ==
    <<"thermostat_id", "thermostat_name", "sensor_id", "sensor_name", "sensor_type">>

\* C8: MustNewConstMetric never panics: every sample on the channel has one
\* label value per label name of its descriptor, in the descriptor's order:
\* none for fetch_time; the identifier and name of a thermostat whose runtime
\* part has run for the three temperature metrics; those two and the mode or
\* a relay name for currenthvacmode, currentfanmode and equipment_running;
\* and for the four sensor metrics the identifier and name of the thermostat
\* and the identifier, name and type of the very sensor being processed when
\* the sample was sent.
C8_Labels ==
    /\ pc # "panic"
    /\ \A p \in 1..Len(ch) :
          LET m == ch[p]
          IN  /\ Len(m.labels) = Len(m.desc.variableLabels)
              /\ IsFetchTime(m) => m.desc.variableLabels = <<>>
              /\ m.desc \in {c.actualTemperature, c.targetTemperatureMin,
                             c.targetTemperatureMax} =>
                    /\ m.desc.variableLabels = ThermostatLabelNames
                    /\ \E q \in 1..Len(tt) :
                          RuntimeRan(q) /\ m.labels = <<tt[q].Identifier, tt[q].Name>>
              /\ m.desc = c.currentHvacMode =>
                    /\ m.desc.variableLabels = Append(ThermostatLabelNames, "current_hvac_mode")
                    /\ \E q \in 1..Len(tt) :
                          /\ RuntimeRan(q)
                          /\ m.labels = <<tt[q].Identifier, tt[q].Name, tt[q].Settings.HvacMode>>
              /\ m.desc = c.currentFanMode =>
                    /\ m.desc.variableLabels = Append(ThermostatLabelNames, "current_fan_mode")
                    /\ \E q \in 1..Len(tt) :
                          /\ RuntimeRan(q)
                          /\ m.labels = <<tt[q].Identifier, tt[q].Name,
                                          tt[q].Runtime.DesiredFanMode>>
              /\ IsEquipment(m) =>
                    /\ m.desc.variableLabels = Append(ThermostatLabelNames, "equipment")
                    /\ \E q \in 1..Len(tt), f \in Relays :
                          RuntimeRan(q) /\ m.labels = <<tt[q].Identifier, tt[q].Name, f>>
              /\ IsSensorMetric(m) => m.desc.variableLabels = SensorLabelNames
              /\ IsFetchTime(m) \/ IsThermostatMetric(m) \/ IsEquipment(m) \/ IsSensorMetric(m)
    /\ LabelsOf(SelectSeq(ch, IsSensorMetric)) = SensorLabelsExpected

\* a scrape has ended that sent samples of two sensors of one connected
\* thermostat
C8_Witness ==
    /\ pc = "done"
    /\ err = "nil"
    /\ \E p \in 1..Len(tt) :
          /\ tt[p].Runtime.Connected
          /\ Len(tt[p].RemoteSensors) >= 2
          /\ Len(SensorStream(tt[p])) >= 3

\* what a Collect that fetched the summaries once, before the loop, and got
\* the answer reply1, sends after fetch_time (a Collect that never reaches a
\* summary fetch sends nothing after fetch_time)
HoistedBody ==
    IF ~reply1.given \/ reply1.reply.err = "error"
    THEN <<>>
    ELSE Concat([p \in 1..Len(tt) |-> ThermostatSamples(tt[p], reply1.reply.ts)])

====
